---- MODULE Spec2Model ----
(***************************************************************************)
(* Live data synchronisation layer of the healthcare dashboard:            *)
(*   - api-client.js : MetricsRefreshManager, the DOMContentLoaded and     *)
(*                     beforeunload handlers, the widget text helpers;     *)
(*   - charts.js     : HealthcareChartsManager and its page handlers.      *)
(* JavaScript runs on one thread: every action below is one run-to-        *)
(* completion task (an event handler, a timer callback, or the resumption  *)
(* of an async function after an awaited fetch settles).                   *)
(***************************************************************************)
EXTENDS Integers, FiniteSets, Sequences, TLC

\* Number of refreshAllMetrics() invocations followed (cycle ids 1..MaxMetricCycles).
MaxMetricCycles == 2
\* Number of initializeCharts()/updateAllCharts() invocations followed.
MaxChartTasks == 2
\* Number of timer ids the browser can hand to one manager at the same time.
MaxTimers == 2
\* Longest labels/data array of a message volume response followed.
MaxLen == 2
\* Largest message count in a message volume response followed.
MaxValue == 2
\* Number of alert() dialogs followed.
MaxAlerts == 2
\* Largest percentage followed, in quarters of a percent.
MaxQuarters == 8
\* Number of invocations of the console handlers followed.
MaxConsoleCalls == 2

null == 0

MetricCycleIds == 1..MaxMetricCycles
ChartTaskIds == 1..MaxChartTasks
TimerIds == 1..MaxTimers

VARIABLES
    followed,       \* the script whose tasks the behaviour follows
    page,           \* "loading" | "ready" | "unloaded"
    initPc,         \* DOMContentLoaded handler of api-client.js
    intervalId,     \* MetricsRefreshManager.intervalId
    metricTimers,   \* ids of the active timers set by MetricsRefreshManager
    metricsLog,     \* last console line of MetricsRefreshManager.start()/stop()
    cycles,         \* refreshAllMetrics() invocations
    widgets,        \* innerHTML of the display elements
    alerts,         \* number of alert() dialogs shown
    uncaught,       \* an error escaped a handler or an async function
    canvases,       \* chart canvases present in the document
    canvasReuse,    \* Chart.js on a canvas that still carries a live chart
    chartsInitTimer,\* the setTimeout(…, 1000) of charts.js is pending
    charts,         \* HealthcareChartsManager.charts
    handles,        \* every Chart object ever constructed
    updateInterval, \* HealthcareChartsManager.updateInterval
    chartTimers,    \* ids of the active timers set by HealthcareChartsManager
    chartsLog,      \* last console line of startAutoUpdate()/stopAutoUpdate()
    tasks,          \* initializeCharts() / updateAllCharts() invocations
    buttons,        \* the click handlers of the four action buttons
    call,           \* one fetchAPI() invocation, followed statement by statement
    shown,          \* text of the FHIR and HL7 elements, field by field
    donut,          \* the message volume chart: its labels and its dataset
    snapshot,       \* the response most recently applied to the chart followed
    percent,        \* text of the percentage elements, digit by digit
    bar,            \* the system health chart: its data and its y-axis option
    line,           \* the response time chart: its labels and its datasets
    resized,        \* the charts that resize() was called on by the last resizeCharts()
    controls,       \* the button elements: innerHTML and disabled, with the handler's originalText
    fields,         \* value of the text areas fhirInput and hl7Input
    regions,        \* innerHTML of the elements validationResults and hl7Results
    consoleCalls    \* invocations of the console handlers, in the order of the clicks

metricsVars == <<initPc, intervalId, metricTimers, metricsLog, cycles, widgets, alerts>>
chartsVars == <<canvases, canvasReuse, chartsInitTimer, charts, handles,
                updateInterval, chartTimers, chartsLog, tasks>>
\* The state followed in detail by the specifications of single functions.
renderVars == <<percent, bar, line, resized, controls>>
\* The state of the FHIR and HL7 console.
consoleVars == <<fields, regions, consoleCalls>>
detailVars == <<buttons, call, shown, donut, snapshot, renderVars, consoleVars>>
vars == <<followed, page, uncaught, metricsVars, chartsVars, detailVars>>

----------------------------------------------------------------------------
\* Display elements written by api-client.js

FhirWidgets == {"fhirPatients", "fhirRequests", "fhirUptime"}
Hl7Widgets == {"hl7Messages", "hl7MostCommon", "hl7ProcessingTime"}
EpicWidgets == {"epicProviderOrgs", "epicPatientRecords", "epicResponseTime"}
AzureWidgets == {"azureSLA", "azureDataProcessed", "azureApiCalls"}
AlertWidgets == {"epicAlertTime", "hl7QueueDepth", "auditLogsToday"}
errorElements == FhirWidgets \cup Hl7Widgets \cup EpicWidgets \cup AzureWidgets
WidgetIds == errorElements \cup AlertWidgets

\* The four metric groups, in the order refreshAllMetrics() awaits them.
MetricQueries == <<"fhir", "hl7", "epic", "azure">>
MetricQuerySet == {MetricQueries[i] : i \in 1..Len(MetricQueries)}

WidgetsOf(q) ==
    CASE q = "fhir" -> FhirWidgets
      [] q = "hl7" -> Hl7Widgets
      [] q = "epic" -> EpicWidgets
      [] q = "azure" -> AzureWidgets

\* Which metric group each mirrored alert element takes its value from.
AlertSource(w) ==
    CASE w = "epicAlertTime" -> "epic"
      [] w = "hl7QueueDepth" -> "hl7"
      [] w = "auditLogsToday" -> "fhir"

\* Content of a display element: the page's static markup, the data of the
\* response fetched by cycle c (written as c), or the error text of showError.
Initial == "initial"
Data(c) == ToString(c)
ErrorText == "Error: Connection failed"

hideLoading(w, ids, content) ==
    [id \in WidgetIds |-> IF id \in ids THEN content ELSE w[id]]

showError(w, ids) ==
    [id \in WidgetIds |-> IF id \in ids THEN ErrorText ELSE w[id]]

----------------------------------------------------------------------------
\* Browser timers: tm is the set of ids of the active interval timers whose
\* callback belongs to one manager.  setInterval returns an id that no active
\* timer has; clearInterval cancels the timer with the given id.

FreeTimers(tm) == TimerIds \ tm

setInterval(tm) ==
    LET id == CHOOSE i \in FreeTimers(tm) : \A j \in FreeTimers(tm) : i <= j
    IN  [id |-> id, timers |-> tm \cup {id}]

clearInterval(tm, id) == tm \ {id}

----------------------------------------------------------------------------
\* MetricsRefreshManager

IdleCycle == [pc |-> "idle", caller |-> "none", failedAt |-> "none", applied |-> {}]

NextQuery(q) ==
    CASE q = "fhir" -> "hl7"
      [] q = "hl7" -> "epic"
      [] q = "epic" -> "azure"
      [] q = "azure" -> "done"

NoLog == "(nothing logged)"

\* start() without the already-running check.
MetricsRefreshManager_start_unguarded(m) ==
    LET r == setInterval(m.timers)
    IN  [intervalId |-> r.id, timers |-> r.timers,
         log |-> "Starting automatic metrics refresh"]

\* start(): m = [intervalId, timers, log] is the manager with its timers and
\* the console line it wrote last.
MetricsRefreshManager_start(m) ==
    IF m.intervalId # null
    THEN [m EXCEPT !.log = "MetricsRefreshManager already running"]
    ELSE LET r == setInterval(m.timers)
         IN  [intervalId |-> r.id, timers |-> r.timers,
              log |-> "Starting automatic metrics refresh"]

\* stop() without the running check.
MetricsRefreshManager_stop_unguarded(m) ==
    [intervalId |-> null, timers |-> clearInterval(m.timers, m.intervalId),
     log |-> "Stopped automatic metrics refresh"]

\* stop() that forgets the timer id without cancelling the timer.
MetricsRefreshManager_stop_keepsTimer(m) ==
    IF m.intervalId # null
    THEN [m EXCEPT !.intervalId = null, !.log = "Stopped automatic metrics refresh"]
    ELSE m

\* stop()
MetricsRefreshManager_stop(m) ==
    IF m.intervalId # null
    THEN [intervalId |-> null, timers |-> clearInterval(m.timers, m.intervalId),
          log |-> "Stopped automatic metrics refresh"]
    ELSE m

\* A catch block that also shows the error in the widgets of the failed group.
refreshAllMetrics_catch_showsError(s, q) ==
    [s EXCEPT !.cyc.pc = "done", !.cyc.failedAt = q, !.threw = FALSE,
              !.widgets = showError(s.widgets, WidgetsOf(q))]

\* A catch block that logs and rethrows.
refreshAllMetrics_catch_rethrows(s, q) ==
    [s EXCEPT !.cyc.pc = "done", !.cyc.failedAt = q, !.threw = TRUE]

\* The catch block of refreshAllMetrics(): the error is logged, nothing is
\* written and nothing is rethrown.
refreshAllMetrics_catch(s, q) ==
    [s EXCEPT !.cyc.pc = "done", !.cyc.failedAt = q, !.threw = FALSE]

\* refreshAllMetrics() resumed after the fetch of group q settled.
\* s = [cyc, widgets, alerts, threw]; c is the cycle whose response this is;
\* threw says whether an error leaves refreshAllMetrics().
refreshAllMetrics_resume(s, c, ok) ==
    LET q == s.cyc.pc
    IN  IF ~ok
        THEN refreshAllMetrics_catch(s, q)
        ELSE LET w1 == hideLoading(s.widgets, WidgetsOf(q), Data(c))
                 w2 == IF q = "azure"
                       THEN hideLoading(w1, AlertWidgets, Data(c))
                       ELSE w1
             IN  [s EXCEPT !.widgets = w2,
                           !.cyc.pc = NextQuery(q),
                           !.cyc.applied = @ \cup {q} \cup
                                (IF q = "azure" THEN {"alerts"} ELSE {})]

FreeCycles == {c \in MetricCycleIds : cycles[c].pc = "idle"}
NewCycle == CHOOSE c \in FreeCycles : \A d \in FreeCycles : c <= d

\* refreshAllMetrics() called: runs up to the first await (the FHIR fetch).
refreshAllMetrics_call(cs, c, caller) ==
    [cs EXCEPT ![c] = [IdleCycle EXCEPT !.pc = "fhir", !.caller = caller]]

----------------------------------------------------------------------------
\* HealthcareChartsManager

ChartOrder == <<"responseTime", "messageVolume", "healthStatus", "fhirTrends">>
ChartNames == {ChartOrder[i] : i \in 1..Len(ChartOrder)}
\* The charts whose data comes from the backend; fhirTrends is computed locally.
FetchedCharts == {"responseTime", "messageVolume", "healthStatus"}
ChartIndex(n) == CHOOSE i \in 1..Len(ChartOrder) : ChartOrder[i] = n

\* <<t, n>> is the Chart object constructed by task t for chart n; data is the
\* data it displays, written as the task whose fetch (or local computation)
\* supplied it.  A destroyed chart displays nothing.
HandleIds == ChartTaskIds \X ChartNames
NoHandle == <<0, "none">>
NoChart == [state |-> "none", data |-> 0]
IdleTask == [kind |-> "none", pc |-> "idle", failed |-> {}, threwAt |-> {},
             applied |-> {}, stale |-> FALSE]

LiveOn(hs, n) == {h \in HandleIds : h[2] = n /\ hs[h].state = "live"}

\* startAutoUpdate(): w = [charts, handles, updateInterval, timers, log].
startAutoUpdate(w) ==
    IF w.updateInterval # null
    THEN [w EXCEPT !.log = "Chart auto-update already running"]
    ELSE LET r == setInterval(w.timers)
         IN  [w EXCEPT !.updateInterval = r.id, !.timers = r.timers,
                       !.log = "Starting automatic chart updates"]

\* stopAutoUpdate()
stopAutoUpdate(w) ==
    IF w.updateInterval # null
    THEN [w EXCEPT !.updateInterval = null,
                   !.timers = clearInterval(w.timers, w.updateInterval),
                   !.log = "Stopped automatic chart updates"]
    ELSE w

\* destroyCharts() that keeps the destroyed charts in the registry.
destroyCharts_keepsRegistry(w) ==
    LET registered == {w.charts[n] : n \in ChartNames} \ {NoHandle}
        hs == [h \in HandleIds |->
                 IF h \in registered
                 THEN [state |-> "destroyed", data |-> 0]
                 ELSE w.handles[h]]
    IN  stopAutoUpdate([w EXCEPT !.handles = hs])

\* destroyCharts() that calls destroy() for every chart name, registered or not.
destroyCharts_everyName(w) ==
    stopAutoUpdate([w EXCEPT !.handles = [h \in HandleIds |->
                                             [state |-> "destroyed", data |-> 0]],
                             !.charts = [n \in ChartNames |-> NoHandle]])

\* destroyCharts(): destroy() is called on every chart in the registry, the
\* registry is replaced by an empty one, the timer is stopped.
destroyCharts(w) ==
    LET registered == {w.charts[n] : n \in ChartNames} \ {NoHandle}
        hs == [h \in HandleIds |->
                 IF h \in registered
                 THEN [state |-> "destroyed", data |-> 0]
                 ELSE w.handles[h]]
    IN  stopAutoUpdate([w EXCEPT !.handles = hs,
                                 !.charts = [n \in ChartNames |-> NoHandle]])

\* A document in which every canvas is found.
getElementById_always(n) == TRUE

\* document.getElementById('<n>Chart'): whether the canvas of chart n exists.
getElementById(n) == n \in canvases

\* this.charts.<n> = new Chart(canvas.getContext('2d'), {...}) inside the try
\* of create<n>Chart(), with the catch that logs: r = [w, task, threw].
\* A Chart.js that refuses a canvas still in use throws from the constructor.
createChart(r, t, n) ==
    IF LiveOn(r.w.handles, n) # {} /\ canvasReuse = "throws"
    THEN [r EXCEPT !.task.threwAt = @ \cup {n}]
    ELSE [r EXCEPT !.w.handles[<<t, n>>] = [state |-> "live", data |-> t],
                   !.w.charts[n] = <<t, n>>,
                   !.task.applied = @ \cup {n}]

\* initializeCharts() from the i-th create*Chart() call up to the next awaited
\* fetch, or to its end, where startAutoUpdate() is called.
RECURSIVE initializeCharts_from(_, _, _)
initializeCharts_from(r, t, i) ==
    IF i > Len(ChartOrder)
    THEN [r EXCEPT !.w = startAutoUpdate(r.w), !.task.pc = "done", !.task.stale = FALSE]
    ELSE LET n == ChartOrder[i]
         IN  IF ~getElementById(n)
             THEN initializeCharts_from(r, t, i + 1)
             ELSE IF n \in FetchedCharts
             THEN [r EXCEPT !.task.pc = n, !.task.stale = FALSE]
             ELSE initializeCharts_from(createChart(r, t, n), t, i + 1)

\* create<n>Chart() resumed after its fetch settled, then the rest of
\* initializeCharts().
initializeCharts_resume(r, t, ok) ==
    LET n == r.task.pc
        r1 == IF ok
              THEN createChart(r, t, n)
              ELSE [r EXCEPT !.task.failed = @ \cup {n}]
    IN  initializeCharts_from(r1, t, ChartIndex(n) + 1)

\* A refresh that replaces the chart: destroys it and constructs a new one.
applyData_recreates(r, t, n) ==
    IF r.w.charts[n] = NoHandle
    THEN [r EXCEPT !.threw = TRUE]
    ELSE [r EXCEPT !.w.handles[r.w.charts[n]] = [state |-> "destroyed", data |-> 0],
                   !.w.handles[<<t, n>>] = [state |-> "live", data |-> t],
                   !.w.charts[n] = <<t, n>>,
                   !.task.applied = @ \cup {n}]

\* The statements of updateAllCharts() that write new data into chart n:
\* this.charts.<n>.data.datasets[..].data = ...; this.charts.<n>.update('none').
\* Reading .data of an entry that is gone raises a TypeError.
applyData(r, t, n) ==
    IF r.w.charts[n] = NoHandle
    THEN [r EXCEPT !.threw = TRUE]
    ELSE [r EXCEPT !.w.handles[r.w.charts[n]].data = t,
                   !.task.applied = @ \cup {n}]

\* A catch block that logs the error and throws it again.
updateAllCharts_catch_rethrows(r) ==
    [r EXCEPT !.task.pc = "done", !.task.stale = FALSE, !.threw = TRUE]

\* The catch block of updateAllCharts(): the error is logged only.
updateAllCharts_catch(r) ==
    [r EXCEPT !.task.pc = "done", !.task.stale = FALSE, !.threw = FALSE]

\* An updateAllCharts() that fetches for every chart without looking at the
\* registry.
RECURSIVE updateAllCharts_from_unchecked(_, _, _)
updateAllCharts_from_unchecked(r, t, i) ==
    IF i > Len(ChartOrder)
    THEN [r EXCEPT !.task.pc = "done", !.task.stale = FALSE]
    ELSE LET n == ChartOrder[i]
         IN  IF n \in FetchedCharts
             THEN [r EXCEPT !.task.pc = n, !.task.stale = FALSE]
             ELSE IF r.w.charts[n] = NoHandle
             THEN updateAllCharts_from_unchecked(r, t, i + 1)
             ELSE updateAllCharts_from_unchecked(applyData(r, t, n), t, i + 1)

\* updateAllCharts() from its i-th chart up to the next awaited fetch or to
\* its end.
RECURSIVE updateAllCharts_from(_, _, _)
updateAllCharts_from(r, t, i) ==
    IF i > Len(ChartOrder)
    THEN [r EXCEPT !.task.pc = "done", !.task.stale = FALSE]
    ELSE LET n == ChartOrder[i]
         IN  IF r.w.charts[n] = NoHandle
             THEN updateAllCharts_from(r, t, i + 1)
             ELSE IF n \in FetchedCharts
             THEN [r EXCEPT !.task.pc = n, !.task.stale = FALSE]
             ELSE updateAllCharts_from(applyData(r, t, n), t, i + 1)

\* updateAllCharts() resumed after the fetch for chart n settled.
updateAllCharts_resume(r, t, ok) ==
    LET n == r.task.pc
    IN  IF ~ok
        THEN updateAllCharts_catch([r EXCEPT !.task.failed = @ \cup {n}, !.threw = TRUE])
        ELSE LET r1 == applyData(r, t, n)
             IN  IF r1.threw
                 THEN updateAllCharts_catch([r1 EXCEPT !.task.threwAt = @ \cup {n}])
                 ELSE updateAllCharts_from(r1, t, ChartIndex(n) + 1)

FreeTasks == {t \in ChartTaskIds : tasks[t].pc = "idle"}
NewTask == CHOOSE t \in FreeTasks : \A u \in FreeTasks : t <= u

World == [charts |-> charts, handles |-> handles,
          updateInterval |-> updateInterval, timers |-> chartTimers,
          log |-> chartsLog]

Manager == [intervalId |-> intervalId, timers |-> metricTimers, log |-> metricsLog]

----------------------------------------------------------------------------
\* The action buttons of the page (onclick handlers of api-client.js)

Buttons == {"testEpicConnection", "testCernerConnection", "refreshAzureMetrics",
            "generateAuditReport"}
\* pc: "idle", or "pending" while the handler awaits its request with the
\* button disabled; outcome: the console line the last run ended with.
IdleButton == [pc |-> "idle", outcome |-> "none"]

----------------------------------------------------------------------------
\* fetchAPI(): one invocation.  pc is the await it is suspended at ("fetch",
\* "text", "json") or the way it ended ("returned", "threw"); status is
\* response.status once the headers arrived; read says how the body was
\* consumed; logged is what the console.error of the status branch printed;
\* error is the exception the returned promise is rejected with.
NoError == [name |-> "none", status |-> 0]
IdleCall == [pc |-> "idle", endpoint |-> "none", status |-> 0, read |-> "none",
             logged |-> "none", error |-> NoError]

----------------------------------------------------------------------------
\* The message volume chart followed in detail: data.labels and
\* data.datasets[0].data of the Chart object are arrays.
NoDonut == [state |-> "none", labels |-> <<>>, data |-> <<>>]
NoSnapshot == [labels |-> <<>>, data |-> <<>>]

----------------------------------------------------------------------------
\* The text of an element that shows a number: the digits before the decimal
\* point, the digits after it, and what follows the number.
PercentWidgets == {"fhirUptime", "azureSLA"}
NoText == [whole |-> 0, frac |-> <<>>, suffix |-> "initial"]

\* The system health (bar) and the response time (line) chart followed in
\* detail.  yMax is options.scales.y.max, null when the option is not given.
NoBar == [state |-> "none", labels |-> <<>>, data |-> <<>>, yMax |-> null]
NoLine == [state |-> "none", labels |-> <<>>, datasets |-> <<>>]

\* A button element as the page has it before a click (its text is written as
\* the name of its handler); originalText is the local variable of the handler
\* that runs on it.
ButtonMarkup(b) == [innerHTML |-> b, disabled |-> FALSE, originalText |-> "none"]
Spinner == "<span class=\"loading-spinner\"></span> ..."

\* The text areas the console handlers read and the elements they write.
InputFields == {"fhirInput", "hl7Input"}
ResultRegions == {"validationResults", "hl7Results"}

----------------------------------------------------------------------------
\* Initial state: the scripts have run (both managers constructed, listeners
\* registered), the document is still loading.

\* The documents considered: every chart canvas present, the canvas of a
\* fetched chart missing, the canvas of the locally computed chart missing.
CanvasConfigs == {ChartNames, ChartNames \ {"messageVolume"}, ChartNames \ {"fhirTrends"}}

\* The two scripts share no state: they meet only in the page events, which
\* run the listeners of both.  A behaviour follows the tasks of one of them
\* (its fetches settle, its timers fire, its methods are called) while the
\* awaited responses and timer callbacks of the other are still outstanding.
Scripts == {"api-client.js", "charts.js"}

Init ==
    /\ followed \in Scripts
    /\ page = "loading"
    /\ initPc = "idle"
    /\ intervalId = null
    /\ metricTimers = {}
    /\ metricsLog = NoLog
    /\ cycles = [c \in MetricCycleIds |-> IdleCycle]
    /\ widgets = [id \in WidgetIds |-> Initial]
    /\ alerts = 0
    /\ uncaught = FALSE
    /\ canvases \in (IF followed = "charts.js" THEN CanvasConfigs ELSE {ChartNames})
    /\ canvasReuse \in (IF followed = "charts.js" THEN {"throws", "allowed"} ELSE {"throws"})
    /\ chartsInitTimer = FALSE
    /\ charts = [n \in ChartNames |-> NoHandle]
    /\ handles = [h \in HandleIds |-> NoChart]
    /\ updateInterval = null
    /\ chartTimers = {}
    /\ chartsLog = NoLog
    /\ tasks = [t \in ChartTaskIds |-> IdleTask]
    /\ buttons = [b \in Buttons |-> IdleButton]
    /\ call = IdleCall
    /\ shown = [id \in FhirWidgets \cup Hl7Widgets |-> Initial]
    /\ donut = NoDonut
    /\ snapshot = NoSnapshot
    /\ percent = [id \in PercentWidgets |-> NoText]
    /\ bar = NoBar
    /\ line = NoLine
    /\ resized = {}
    /\ controls = [b \in Buttons |-> ButtonMarkup(b)]
    /\ fields = [f \in InputFields |-> <<>>]
    /\ regions = [r \in ResultRegions |-> Initial]
    /\ consoleCalls = <<>>

----------------------------------------------------------------------------
\* Page events

\* DOMContentLoaded: the listener of api-client.js runs up to the awaited
\* health check, the listener of charts.js arms its one second timeout.
DOMContentLoaded ==
    /\ page = "loading"
    /\ page' = "ready"
    /\ initPc' = "health"
    /\ chartsInitTimer' = TRUE
    /\ UNCHANGED <<detailVars, followed, intervalId, metricTimers, metricsLog, cycles, widgets,
                   alerts, uncaught, canvases, canvasReuse, charts, handles,
                   updateInterval, chartTimers, chartsLog, tasks>>

\* A catch block that only logs.
OnReady_catch_logsOnly(w) == w

\* The catch block of the DOMContentLoaded listener of api-client.js.
OnReady_catch(w) == showError(w, errorElements)

\* checkHealth() settled: on success refreshAllMetrics() is called and awaited.
HealthCheckSettles(ok) ==
    /\ followed = "api-client.js"
    /\ initPc = "health"
    /\ IF ok
       THEN /\ FreeCycles # {}
            /\ cycles' = refreshAllMetrics_call(cycles, NewCycle, "init")
            /\ initPc' = "refresh"
            /\ UNCHANGED widgets
       ELSE /\ widgets' = OnReady_catch(widgets)
            /\ initPc' = "failed"
            /\ UNCHANGED cycles
    /\ UNCHANGED <<detailVars, followed, page, intervalId, metricTimers, metricsLog, alerts, uncaught, chartsVars>>

\* A refreshAllMetrics() whose catch block also stops the scheduler.
MetricsFetchSettles_stopsOnFailure(c, ok) ==
    /\ followed = "api-client.js"
    /\ cycles[c].pc \in MetricQuerySet
    /\ FreeTimers(metricTimers) # {}
    /\ LET s == refreshAllMetrics_resume(
                    [cyc |-> cycles[c], widgets |-> widgets,
                     alerts |-> alerts, threw |-> FALSE], c, ok)
           over == s.threw \/ s.cyc.pc = "done"
           back == over /\ s.cyc.caller = "init"
           m0 == IF s.cyc.failedAt # "none" THEN MetricsRefreshManager_stop(Manager) ELSE Manager
           m1 == IF back /\ ~s.threw THEN MetricsRefreshManager_start(m0) ELSE m0
       IN  /\ cycles' = [cycles EXCEPT ![c] = [s.cyc EXCEPT !.pc =
                                IF over THEN "done" ELSE s.cyc.pc]]
           /\ widgets' = IF back /\ s.threw THEN OnReady_catch(s.widgets) ELSE s.widgets
           /\ alerts' = s.alerts
           /\ initPc' = IF back THEN (IF s.threw THEN "failed" ELSE "done") ELSE initPc
           /\ intervalId' = m1.intervalId
           /\ metricTimers' = m1.timers
           /\ metricsLog' = m1.log
           /\ uncaught' = (uncaught \/ (s.threw /\ ~back))
    /\ UNCHANGED <<detailVars, followed, page, chartsVars>>

\* The fetch awaited by cycle c settled.  When the cycle was the one awaited by
\* the DOMContentLoaded listener, the listener goes on in the same task:
\* metricsManager.start(), or its catch block if refreshAllMetrics() threw.
\* An error leaving a cycle nobody awaits is an unhandled rejection.
MetricsFetchSettles(c, ok) ==
    /\ followed = "api-client.js"
    /\ cycles[c].pc \in MetricQuerySet
    /\ FreeTimers(metricTimers) # {}
    /\ LET s == refreshAllMetrics_resume(
                    [cyc |-> cycles[c], widgets |-> widgets,
                     alerts |-> alerts, threw |-> FALSE], c, ok)
           over == s.threw \/ s.cyc.pc = "done"
           back == over /\ s.cyc.caller = "init"
           m1 == IF back /\ ~s.threw THEN MetricsRefreshManager_start(Manager) ELSE Manager
       IN  /\ cycles' = [cycles EXCEPT ![c] = [s.cyc EXCEPT !.pc =
                                IF over THEN "done" ELSE s.cyc.pc]]
           /\ widgets' = IF back /\ s.threw THEN OnReady_catch(s.widgets) ELSE s.widgets
           /\ alerts' = s.alerts
           /\ initPc' = IF back THEN (IF s.threw THEN "failed" ELSE "done") ELSE initPc
           /\ intervalId' = m1.intervalId
           /\ metricTimers' = m1.timers
           /\ metricsLog' = m1.log
           /\ uncaught' = (uncaught \/ (s.threw /\ ~back))
    /\ UNCHANGED <<detailVars, followed, page, chartsVars>>

\* A timer callback that skips its turn while a cycle is in flight.
MetricsTimerFires_exclusive ==
    /\ followed = "api-client.js"
    /\ metricTimers # {}
    /\ FreeCycles # {}
    /\ \A c \in MetricCycleIds : cycles[c].pc \notin MetricQuerySet
    /\ cycles' = refreshAllMetrics_call(cycles, NewCycle, "timer")
    /\ UNCHANGED <<detailVars, followed, page, initPc, intervalId, metricTimers, metricsLog, widgets, alerts, uncaught, chartsVars>>

\* The interval timer of the MetricsRefreshManager fires.
MetricsTimerFires ==
    /\ followed = "api-client.js"
    /\ metricTimers # {}
    /\ FreeCycles # {}
    /\ cycles' = refreshAllMetrics_call(cycles, NewCycle, "timer")
    /\ UNCHANGED <<detailVars, followed, page, initPc, intervalId, metricTimers, metricsLog, widgets, alerts, uncaught, chartsVars>>

\* window.metricsManager.start() called by page code.
MetricsStartCalled ==
    /\ followed = "api-client.js"
    /\ page = "ready"
    /\ FreeTimers(metricTimers) # {}
    /\ LET m == MetricsRefreshManager_start(Manager)
       IN  intervalId' = m.intervalId /\ metricTimers' = m.timers /\ metricsLog' = m.log
    /\ UNCHANGED <<detailVars, followed, page, initPc, cycles, widgets, alerts, uncaught, chartsVars>>

\* window.metricsManager.stop() called by page code.
MetricsStopCalled ==
    /\ followed = "api-client.js"
    /\ page = "ready"
    /\ LET m == MetricsRefreshManager_stop(Manager)
       IN  intervalId' = m.intervalId /\ metricTimers' = m.timers /\ metricsLog' = m.log
    /\ UNCHANGED <<detailVars, followed, page, initPc, cycles, widgets, alerts, uncaught, chartsVars>>

\* Marks the fetches that were in flight when destroyCharts() ran.
MarkStale(ts) ==
    [t \in ChartTaskIds |->
        IF ts[t].pc \in FetchedCharts THEN [ts[t] EXCEPT !.stale = TRUE] ELSE ts[t]]

\* beforeunload: the listener of api-client.js stops the refresh manager, the
\* listener of charts.js destroys the charts.
BeforeUnload ==
    /\ page = "ready"
    /\ page' = "unloaded"
    /\ LET m == MetricsRefreshManager_stop(Manager)
           w == destroyCharts(World)
       IN  /\ intervalId' = m.intervalId
           /\ metricTimers' = m.timers
           /\ metricsLog' = m.log
           /\ chartTimers' = w.timers
           /\ chartsLog' = w.log
           /\ charts' = w.charts
           /\ handles' = w.handles
           /\ updateInterval' = w.updateInterval
    /\ tasks' = MarkStale(tasks)
    /\ UNCHANGED <<detailVars, followed, initPc, cycles, widgets, alerts, uncaught,
                   canvases, canvasReuse, chartsInitTimer>>

----------------------------------------------------------------------------
\* Chart tasks

\* Installs the result r = [w, task, threw] of a step of chart task t.
ChartStep(t, r) ==
    /\ tasks' = [tasks EXCEPT ![t] = r.task]
    /\ charts' = r.w.charts
    /\ handles' = r.w.handles
    /\ updateInterval' = r.w.updateInterval
    /\ chartTimers' = r.w.timers
    /\ chartsLog' = r.w.log
    /\ uncaught' = (uncaught \/ r.threw)
    /\ UNCHANGED <<detailVars, followed, page, metricsVars, canvases, canvasReuse>>

\* An initializeCharts() that starts the auto-update before it creates the
\* charts.
initializeCharts_call_timerFirst(t) ==
    initializeCharts_from(
        [w |-> startAutoUpdate(World), task |-> [IdleTask EXCEPT !.kind = "init"],
         threw |-> FALSE], t, 1)

\* initializeCharts() called.
initializeCharts_call(t) ==
    initializeCharts_from(
        [w |-> World, task |-> [IdleTask EXCEPT !.kind = "init"], threw |-> FALSE], t, 1)

\* updateAllCharts() called.
updateAllCharts_call(t) ==
    updateAllCharts_from(
        [w |-> World, task |-> [IdleTask EXCEPT !.kind = "update"], threw |-> FALSE], t, 1)

\* The one second timeout of charts.js expires: initializeCharts() starts.
ChartsInitTimeout ==
    /\ followed = "charts.js"
    /\ chartsInitTimer
    /\ FreeTasks # {}
    /\ FreeTimers(chartTimers) # {}
    /\ chartsInitTimer' = FALSE
    /\ ChartStep(NewTask, initializeCharts_call(NewTask))

\* window.chartsManager.initializeCharts() called again by page code.
InitializeChartsCalled ==
    /\ followed = "charts.js"
    /\ page = "ready"
    /\ ~chartsInitTimer
    /\ FreeTasks # {}
    /\ FreeTimers(chartTimers) # {}
    /\ UNCHANGED chartsInitTimer
    /\ ChartStep(NewTask, initializeCharts_call(NewTask))

\* The interval timer of the charts manager fires: updateAllCharts() starts.
ChartsTimerFires ==
    /\ followed = "charts.js"
    /\ chartTimers # {}
    /\ FreeTasks # {}
    /\ UNCHANGED chartsInitTimer
    /\ ChartStep(NewTask, updateAllCharts_call(NewTask))

\* The fetch awaited by chart task t settled.
ChartFetchSettles(t, ok) ==
    /\ followed = "charts.js"
    /\ tasks[t].pc \in FetchedCharts
    /\ FreeTimers(chartTimers) # {}
    /\ UNCHANGED chartsInitTimer
    /\ LET r == [w |-> World, task |-> tasks[t], threw |-> FALSE]
       IN  IF tasks[t].kind = "init"
           THEN ChartStep(t, initializeCharts_resume(r, t, ok))
           ELSE ChartStep(t, updateAllCharts_resume(r, t, ok))

\* window.chartsManager.destroyCharts() called by page code.
DestroyChartsCalled ==
    /\ followed = "charts.js"
    /\ page = "ready"
    /\ LET w == destroyCharts(World)
       IN  /\ charts' = w.charts
           /\ handles' = w.handles
           /\ updateInterval' = w.updateInterval
           /\ chartTimers' = w.timers
           /\ chartsLog' = w.log
    /\ tasks' = MarkStale(tasks)
    /\ UNCHANGED <<detailVars, followed, page, metricsVars, uncaught, canvases, canvasReuse, chartsInitTimer>>

\* window.chartsManager.startAutoUpdate() / stopAutoUpdate() called by page code.
StartAutoUpdateCalled ==
    /\ followed = "charts.js"
    /\ page = "ready"
    /\ FreeTimers(chartTimers) # {}
    /\ LET w == startAutoUpdate(World)
       IN  updateInterval' = w.updateInterval /\ chartTimers' = w.timers /\ chartsLog' = w.log
    /\ UNCHANGED <<detailVars, followed, page, metricsVars, uncaught, canvases, canvasReuse,
                   chartsInitTimer, charts, handles, tasks>>

StopAutoUpdateCalled ==
    /\ followed = "charts.js"
    /\ page = "ready"
    /\ LET w == stopAutoUpdate(World)
       IN  updateInterval' = w.updateInterval /\ chartTimers' = w.timers /\ chartsLog' = w.log
    /\ UNCHANGED <<detailVars, followed, page, metricsVars, uncaught, canvases, canvasReuse,
                   chartsInitTimer, charts, handles, tasks>>

----------------------------------------------------------------------------

Next ==
    \/ DOMContentLoaded
    \/ \E ok \in BOOLEAN : HealthCheckSettles(ok)
    \/ \E c \in MetricCycleIds, ok \in BOOLEAN : MetricsFetchSettles(c, ok)
    \/ MetricsTimerFires
    \/ MetricsStartCalled
    \/ MetricsStopCalled
    \/ BeforeUnload
    \/ ChartsInitTimeout
    \/ InitializeChartsCalled
    \/ ChartsTimerFires
    \/ \E t \in ChartTaskIds, ok \in BOOLEAN : ChartFetchSettles(t, ok)
    \/ DestroyChartsCalled
    \/ StartAutoUpdateCalled
    \/ StopAutoUpdateCalled

Spec == Init /\ [][Next]_vars

\* The state of the two managers and of the page.
programVars == <<followed, page, uncaught, metricsVars, chartsVars>>

----------------------------------------------------------------------------
\* The statements of refreshAllMetrics() that write the FHIR and the HL7
\* elements, followed field by field.  A field of a decoded response is a
\* number, a string, or missing (reading it gives undefined); the response as
\* a whole may also be the JSON value null.

FieldValues == {"number", "text", "missing"}
FhirFields == {"active_patients", "requests_per_minute", "uptime_percentage"}
Hl7Fields == {"daily_message_count", "most_common_type", "avg_processing_time"}
NullResponse == [f \in {} |-> "missing"]
FhirResponses == [FhirFields -> FieldValues] \cup {NullResponse}
Hl7Responses == [Hl7Fields -> FieldValues] \cup {NullResponse}

\* formatNumber(): a number is rendered with toLocaleString(), anything else
\* is returned as it is.
formatNumber(v) == IF v = "number" THEN "localized number" ELSE v

\* formatPercentage(): a number is rendered with one decimal and a % sign.
formatPercentage(v) == IF v = "number" THEN "number with one decimal %" ELSE v

\* The template literal `${v}s`.
secondsTemplate(v) ==
    CASE v = "number" -> "number s"
      [] v = "text" -> "text s"
      [] v = "missing" -> "undefineds"

\* element.innerHTML = content: undefined is converted to the string "undefined".
innerHTML(content) == IF content = "missing" THEN "undefined" ELSE content

\* The three hideLoading() calls after the FHIR fetch resolved with r; reading
\* a property of null throws, which ends the cycle in its catch block.
FhirResponseApplied(r) ==
    /\ IF r = NullResponse
       THEN UNCHANGED shown
       ELSE shown' = [shown EXCEPT
                !["fhirPatients"] = innerHTML(formatNumber(r["active_patients"])),
                !["fhirRequests"] = innerHTML(formatNumber(r["requests_per_minute"])),
                !["fhirUptime"] = innerHTML(formatPercentage(r["uptime_percentage"]))]
    /\ UNCHANGED <<programVars, renderVars, buttons, call, donut, snapshot, consoleVars>>

\* The three hideLoading() calls after the HL7 fetch resolved with r.
Hl7ResponseApplied(r) ==
    /\ IF r = NullResponse
       THEN UNCHANGED shown
       ELSE shown' = [shown EXCEPT
                !["hl7Messages"] = innerHTML(formatNumber(r["daily_message_count"])),
                !["hl7MostCommon"] = innerHTML(r["most_common_type"]),
                !["hl7ProcessingTime"] = innerHTML(secondsTemplate(r["avg_processing_time"]))]
    /\ UNCHANGED <<programVars, renderVars, buttons, call, donut, snapshot, consoleVars>>

NextDecode ==
    \/ \E r \in FhirResponses : FhirResponseApplied(r)
    \/ \E r \in Hl7Responses : Hl7ResponseApplied(r)

SpecDecode == Init /\ [][NextDecode]_vars

----------------------------------------------------------------------------
\* The message volume (doughnut) chart with the content of its arrays.  Only
\* responses whose labels and data are arrays of numbers are followed.

Arrays(S) == UNION {[1..n -> S] : n \in 0..MaxLen}
VolumeResponses == [labels : Arrays({"label"}), data : Arrays(0..MaxValue)]

\* new Chart(ctx, {type: 'doughnut', data: {labels: data.labels,
\* datasets: [{data: data.data, ...}]}}) in createMessageVolumeChart().
newDonut(s) == [state |-> "live", labels |-> s.labels, data |-> s.data]

\* A refresh that reads the response and leaves the chart as it is.
applyVolumeData_keepsOld(chart, s) == chart

\* this.charts.messageVolume.data.datasets[0].data = volumeData.data in
\* updateAllCharts().
applyVolumeData(chart, s) == [chart EXCEPT !.data = s.data]

\* array.reduce((a, b) => a + b, 0)
RECURSIVE reduceSum(_)
reduceSum(a) == IF a = <<>> THEN 0 ELSE a[1] + reduceSum(Tail(a))

\* (num / den * 100).toFixed(1), as <<integer part, first decimal>>: the
\* multiple of 0.1 nearest to the quotient, the larger one of two equally
\* near.  0 / 0 is NaN, written <<>>.  Computed in exact arithmetic.
toFixed1(num, den) ==
    IF den = 0
    THEN <<>>
    ELSE LET tenths == (2000 * num + den) \div (2 * den)
         IN  <<tenths \div 10, tenths % 10>>

\* The tooltip label callback of the message volume chart for its i-th arc:
\* value is context.parsed, total the sum of context.dataset.data.
tooltipPercentage(chart, i) ==
    LET value == chart.data[i]
        total == reduceSum(chart.data)
    IN  toFixed1(value, total)

\* createMessageVolumeChart() after its fetch resolved with s.
DonutCreated(s) ==
    /\ donut.state = "none"
    /\ donut' = newDonut(s)
    /\ snapshot' = s
    /\ UNCHANGED <<programVars, renderVars, buttons, call, shown, consoleVars>>

\* The message volume part of updateAllCharts() after its fetch resolved with s.
DonutUpdated(s) ==
    /\ donut.state = "live"
    /\ donut' = applyVolumeData(donut, s)
    /\ snapshot' = s
    /\ UNCHANGED <<programVars, renderVars, buttons, call, shown, consoleVars>>

NextDonut ==
    \/ \E s \in VolumeResponses : DonutCreated(s)
    \/ \E s \in VolumeResponses : DonutUpdated(s)

SpecDonut == Init /\ [][NextDonut]_vars

----------------------------------------------------------------------------

\* The onclick handlers testEpicConnection(), testCernerConnection(),
\* refreshAzureMetrics() and generateAuditReport(), next to the background
\* refresh of the metrics.

\* What the awaited request of a handler can come to: it is rejected, it
\* resolves with the object the handler expects, or it resolves with null.
RequestOutcomes == {"rejected", "resolved", "null"}

\* What refreshAzureMetrics() writes into the three Azure elements.
ButtonData == "refreshAzureMetrics"

\* A catch block that only logs.
alertFailure_silent(a) == a

\* alert('... failed. Please check the console for details.') in the catch
\* block of a handler: a is the number of dialogs shown so far.
alertFailure(a) == a + 1

\* alert(alertMessage) with the test results.
alertResults(a) == a + 1

\* The first statements of a handler, with button = event.target:
\* originalText = button.innerHTML; button.innerHTML = '<spinner> ...';
\* button.disabled = true.
handler_entry(button) ==
    [innerHTML |-> Spinner, disabled |-> TRUE, originalText |-> button.innerHTML]

\* A handler that restores the button at the end of its try block only, so
\* that nothing is restored here.
handler_finally_missing(button) == button

\* The finally block of a handler: button.innerHTML = originalText;
\* button.disabled = false.  The handler ends and its local is gone.
handler_finally(button) ==
    [innerHTML |-> button.originalText, disabled |-> FALSE, originalText |-> "none"]

\* The button is clicked: the handler disables it and awaits its request (for
\* generateAuditReport() a timeout of three seconds).  A disabled button gets
\* no click.
ButtonClicked(b) ==
    /\ followed = "api-client.js"
    /\ page = "ready"
    /\ buttons[b].pc = "idle"
    /\ ~controls[b].disabled
    /\ alerts + Cardinality({x \in Buttons : buttons[x].pc = "pending"}) < MaxAlerts
    /\ buttons' = [buttons EXCEPT ![b].pc = "pending"]
    /\ controls' = [controls EXCEPT ![b] = handler_entry(controls[b])]
    /\ UNCHANGED <<programVars, percent, bar, line, resized, call, shown, donut, snapshot, consoleVars>>

\* The request of a connection test settled.  Building the message reads
\* testResults.<part>.status, which throws on null; the catch block shows the
\* failure alert; finally the button is enabled again.
TestRequestSettles(b, o) ==
    /\ followed = "api-client.js"
    /\ b \in {"testEpicConnection", "testCernerConnection"}
    /\ buttons[b].pc = "pending"
    /\ IF o = "resolved"
       THEN /\ alerts' = alertResults(alerts)
            /\ buttons' = [buttons EXCEPT ![b] = [pc |-> "idle", outcome |-> "completed"]]
       ELSE /\ alerts' = alertFailure(alerts)
            /\ buttons' = [buttons EXCEPT ![b] = [pc |-> "idle", outcome |-> "failed"]]
    /\ controls' = [controls EXCEPT ![b] = handler_finally(controls[b])]
    /\ UNCHANGED <<followed, page, uncaught, initPc, intervalId, metricTimers, metricsLog,
                   cycles, widgets, chartsVars, call, shown, donut, snapshot,
                   percent, bar, line, resized, consoleVars>>

\* The request of refreshAzureMetrics() settled: the Azure elements are
\* written, or the catch block shows the failure alert.
AzureRequestSettles(o) ==
    /\ followed = "api-client.js"
    /\ buttons["refreshAzureMetrics"].pc = "pending"
    /\ IF o = "resolved"
       THEN /\ widgets' = hideLoading(widgets, AzureWidgets, ButtonData)
            /\ alerts' = alerts
            /\ buttons' = [buttons EXCEPT !["refreshAzureMetrics"] =
                                [pc |-> "idle", outcome |-> "completed"]]
       ELSE /\ widgets' = widgets
            /\ alerts' = alertFailure(alerts)
            /\ buttons' = [buttons EXCEPT !["refreshAzureMetrics"] =
                                [pc |-> "idle", outcome |-> "failed"]]
    /\ controls' = [controls EXCEPT !["refreshAzureMetrics"] =
                        handler_finally(controls["refreshAzureMetrics"])]
    /\ UNCHANGED <<followed, page, uncaught, initPc, intervalId, metricTimers, metricsLog,
                   cycles, chartsVars, call, shown, donut, snapshot,
                   percent, bar, line, resized, consoleVars>>

\* The three second timeout awaited by generateAuditReport() expires: the
\* handler shows the report alert; finally the button is enabled again.
AuditTimeoutExpires ==
    /\ followed = "api-client.js"
    /\ buttons["generateAuditReport"].pc = "pending"
    /\ alerts' = alertResults(alerts)
    /\ buttons' = [buttons EXCEPT !["generateAuditReport"] =
                        [pc |-> "idle", outcome |-> "completed"]]
    /\ controls' = [controls EXCEPT !["generateAuditReport"] =
                        handler_finally(controls["generateAuditReport"])]
    /\ UNCHANGED <<followed, page, uncaught, initPc, intervalId, metricTimers, metricsLog,
                   cycles, widgets, chartsVars, call, shown, donut, snapshot,
                   percent, bar, line, resized, consoleVars>>

InitUser == Init /\ followed = "api-client.js"

NextUser ==
    \/ DOMContentLoaded
    \/ \E ok \in BOOLEAN : HealthCheckSettles(ok)
    \/ \E c \in MetricCycleIds, ok \in BOOLEAN : MetricsFetchSettles(c, ok)
    \/ MetricsTimerFires
    \/ BeforeUnload
    \/ \E b \in Buttons : ButtonClicked(b)
    \/ \E b \in Buttons, o \in RequestOutcomes : TestRequestSettles(b, o)
    \/ \E o \in RequestOutcomes : AzureRequestSettles(o)
    \/ AuditTimeoutExpires

SpecUser == InitUser /\ [][NextUser]_vars

----------------------------------------------------------------------------
\* fetchAPI(), statement by statement

Endpoints ==
    {"/api/health", "/api/fhir/validate", "/api/fhir/metrics", "/api/hl7/parse",
     "/api/hl7/transform", "/api/hl7/metrics", "/api/epic/test", "/api/epic/metrics",
     "/api/cerner/test", "/api/cerner/metrics", "/api/azure/metrics",
     "/api/analytics/response-times", "/api/analytics/message-volume",
     "/api/analytics/system-health"}

\* Status codes a response may carry; response.ok is true for 200..299.
Statuses == {200, 201, 404, 500}
responseOk(status) == status \in 200..299

\* The catch block of fetchAPI(): logs the error and throws it again.
fetchAPI_catch(c, e) == [c EXCEPT !.pc = "threw", !.error = e]

\* fetchAPI(endpoint) called: runs up to await fetch(url, finalOptions).
FetchAPICalled(e) ==
    /\ call.pc \in {"idle", "returned", "threw"}
    /\ call' = [IdleCall EXCEPT !.pc = "fetch", !.endpoint = e]
    /\ UNCHANGED <<programVars, renderVars, buttons, shown, donut, snapshot, consoleVars>>

\* fetch() rejected: no response arrived (network failure).
FetchRejects ==
    /\ call.pc = "fetch"
    /\ call' = fetchAPI_catch(call, [name |-> "TypeError", status |-> 0])
    /\ UNCHANGED <<programVars, renderVars, buttons, shown, donut, snapshot, consoleVars>>

\* fetch() resolved with a response of the given status: fetchAPI() goes on
\* to await response.text() or response.json().
FetchResolves(status) ==
    /\ call.pc = "fetch"
    /\ call' = [call EXCEPT !.status = status,
                            !.pc = IF responseOk(status) THEN "json" ELSE "text"]
    /\ UNCHANGED <<programVars, renderVars, buttons, shown, donut, snapshot, consoleVars>>

\* response.text() settled.  When the body was read, it is logged with the
\* status and an Error naming the status is thrown; when reading the body
\* failed, the rejection of response.text() is what the catch block gets.
TextSettles(ok) ==
    /\ call.pc = "text"
    /\ call' = IF ok
               THEN fetchAPI_catch([call EXCEPT !.read = "text",
                                                !.logged = "API Error status: body"],
                                   [name |-> "Error", status |-> call.status])
               ELSE fetchAPI_catch(call, [name |-> "TypeError", status |-> 0])
    /\ UNCHANGED <<programVars, renderVars, buttons, shown, donut, snapshot, consoleVars>>

\* response.json() settled: the decoded value is returned, or the body was
\* not JSON (SyntaxError), or reading it failed (TypeError).
JsonSettles(outcome) ==
    /\ call.pc = "json"
    /\ call' = CASE outcome = "decoded" -> [call EXCEPT !.read = "json", !.pc = "returned"]
                 [] outcome = "not JSON" ->
                        fetchAPI_catch([call EXCEPT !.read = "json"],
                                       [name |-> "SyntaxError", status |-> 0])
                 [] outcome = "unreadable" ->
                        fetchAPI_catch(call, [name |-> "TypeError", status |-> 0])
    /\ UNCHANGED <<programVars, renderVars, buttons, shown, donut, snapshot, consoleVars>>

NextFetch ==
    \/ \E e \in Endpoints : FetchAPICalled(e)
    \/ FetchRejects
    \/ \E status \in Statuses : FetchResolves(status)
    \/ \E ok \in BOOLEAN : TextSettles(ok)
    \/ \E outcome \in {"decoded", "not JSON", "unreadable"} : JsonSettles(outcome)

SpecFetch == Init /\ [][NextFetch]_vars

----------------------------------------------------------------------------
\* The percentage elements, digit by digit.  A percentage is followed as a
\* number of quarters (q stands for the number q / 4), which a JavaScript
\* number represents exactly.

Quarters == 0..MaxQuarters

\* number.toFixed(1): the multiple of 0.1 nearest to the number, the larger
\* one of two equally near.
toFixed(q) ==
    LET tenths == (5 * q + 1) \div 2
    IN  [whole |-> tenths \div 10, frac |-> <<tenths % 10>>, suffix |-> ""]

\* `${number}`: the shortest decimal that denotes the number.
numberToString(q) ==
    [whole |-> q \div 4,
     frac |-> CASE q % 4 = 0 -> <<>>
                [] q % 4 = 1 -> <<2, 5>>
                [] q % 4 = 2 -> <<5>>
                [] q % 4 = 3 -> <<7, 5>>,
     suffix |-> ""]

\* formatPercentage(number) for a number: `${number.toFixed(1)}%`.
formatPercentage_number(q) == [toFixed(q) EXCEPT !.suffix = "%"]

\* The template literal `${metrics.sla_compliance}%` of refreshAzureMetrics().
slaTemplate(q) == [numberToString(q) EXCEPT !.suffix = "%"]

\* hideLoading('fhirUptime', formatPercentage(fhirMetrics.uptime_percentage))
\* in refreshAllMetrics().
FhirUptimeWritten(q) ==
    /\ percent' = [percent EXCEPT !["fhirUptime"] = formatPercentage_number(q)]
    /\ UNCHANGED <<programVars, buttons, call, shown, donut, snapshot,
                   bar, line, resized, controls, consoleVars>>

\* hideLoading('azureSLA', formatPercentage(azureMetrics.sla_compliance)) in
\* refreshAllMetrics().
AzureSLAWritten(q) ==
    /\ percent' = [percent EXCEPT !["azureSLA"] = formatPercentage_number(q)]
    /\ UNCHANGED <<programVars, buttons, call, shown, donut, snapshot,
                   bar, line, resized, controls, consoleVars>>

\* hideLoading('azureSLA', `${metrics.sla_compliance}%`) in the onclick
\* handler refreshAzureMetrics().
AzureSLARefreshed(q) ==
    /\ percent' = [percent EXCEPT !["azureSLA"] = slaTemplate(q)]
    /\ UNCHANGED <<programVars, buttons, call, shown, donut, snapshot,
                   bar, line, resized, controls, consoleVars>>

NextPercent ==
    \/ \E q \in Quarters : FhirUptimeWritten(q)
    \/ \E q \in Quarters : AzureSLAWritten(q)
    \/ \E q \in Quarters : AzureSLARefreshed(q)

SpecPercent == Init /\ [][NextPercent]_vars

----------------------------------------------------------------------------
\* The system health (bar) chart with its data and its y-axis.  Uptime values
\* below, at and above 100 are followed.

HealthValues == {0, 100, 100 + MaxValue}
HealthResponses == [labels : Arrays({"label"}), data : Arrays(HealthValues)]

\* A bar chart constructed without a max option for its y-axis.
newBar_autoScale(s) ==
    [state |-> "live", labels |-> s.labels, data |-> s.data, yMax |-> null]

\* new Chart(ctx, {type: 'bar', data: {labels: data.labels, datasets:
\* [{data: data.data, ...}]}, options: {scales: {y: {beginAtZero: true,
\* max: 100, ...}}}}) in createHealthStatusChart().
newBar(s) ==
    [state |-> "live", labels |-> s.labels, data |-> s.data, yMax |-> 100]

\* this.charts.healthStatus.data.datasets[0].data = healthData.data in
\* updateAllCharts().
applyHealthData(chart, s) == [chart EXCEPT !.data = s.data]

\* The upper bound of the y-axis as Chart.js draws it: the max option when it
\* is given, otherwise the largest value of the data (1 for no data).
yAxisMax(chart) ==
    IF chart.yMax # null
    THEN chart.yMax
    ELSE IF chart.data = <<>>
    THEN 1
    ELSE CHOOSE v \in HealthValues :
            /\ \E i \in 1..Len(chart.data) : chart.data[i] = v
            /\ \A i \in 1..Len(chart.data) : chart.data[i] <= v

\* createHealthStatusChart() after its fetch resolved with s.
BarCreated(s) ==
    /\ bar.state = "none"
    /\ bar' = newBar(s)
    /\ snapshot' = s
    /\ UNCHANGED <<programVars, buttons, call, shown, donut, percent, line,
                   resized, controls, consoleVars>>

\* The system health part of updateAllCharts() after its fetch resolved with s.
BarUpdated(s) ==
    /\ bar.state = "live"
    /\ bar' = applyHealthData(bar, s)
    /\ snapshot' = s
    /\ UNCHANGED <<programVars, buttons, call, shown, donut, percent, line,
                   resized, controls, consoleVars>>

NextBar ==
    \/ \E s \in HealthResponses : BarCreated(s)
    \/ \E s \in HealthResponses : BarUpdated(s)

SpecBar == Init /\ [][NextBar]_vars

----------------------------------------------------------------------------
\* The resize listener of charts.js, next to the tasks of the charts manager
\* that the page itself starts.

\* A resizeCharts() that calls resize() on the entry of every chart name.
resizeCharts_unguarded(w) ==
    [w |-> w,
     resized |-> {w.charts[n] : n \in ChartNames} \ {NoHandle},
     threw |-> \E n \in ChartNames : w.charts[n] = NoHandle]

\* resizeCharts(): chart.resize() is called on every chart the registry
\* holds; resized is the set of those charts.
resizeCharts(w) ==
    [w |-> w,
     resized |-> {w.charts[n] : n \in ChartNames} \ {NoHandle},
     threw |-> FALSE]

\* The window is resized: the listener calls resizeCharts().
WindowResized ==
    /\ followed = "charts.js"
    /\ page # "unloaded"
    /\ LET r == resizeCharts(World)
       IN  /\ charts' = r.w.charts
           /\ handles' = r.w.handles
           /\ updateInterval' = r.w.updateInterval
           /\ chartTimers' = r.w.timers
           /\ chartsLog' = r.w.log
           /\ resized' = r.resized
           /\ uncaught' = (uncaught \/ r.threw)
    /\ UNCHANGED <<followed, page, metricsVars, canvases, canvasReuse, chartsInitTimer,
                   tasks, buttons, call, shown, donut, snapshot, percent, bar, line,
                   controls, consoleVars>>

InitResize == Init /\ followed = "charts.js"

NextResize ==
    \/ DOMContentLoaded
    \/ ChartsInitTimeout
    \/ ChartsTimerFires
    \/ \E t \in ChartTaskIds, ok \in BOOLEAN : ChartFetchSettles(t, ok)
    \/ BeforeUnload
    \/ WindowResized

SpecResize == InitResize /\ [][NextResize]_vars

----------------------------------------------------------------------------
\* The response time (line) chart with its labels and its datasets.  The data
\* array of a series is written as one number.

SeriesData == 1..MaxValue
ResponseTimeResponses == [labels : Arrays({"label"}), datasets : Arrays(SeriesData)]

\* new Chart(ctx, {type: 'line', data: {labels: data.labels, datasets:
\* data.datasets.map(dataset => ({...dataset, ...}))}}) in
\* createResponseTimeChart().
newLine(s) == [state |-> "live", labels |-> s.labels, datasets |-> s.datasets]

\* this.charts.responseTime.data.datasets.forEach((dataset, index) => {
\*     if (responseData.datasets[index]) dataset.data = responseData.datasets[index].data })
\* in updateAllCharts().
applyResponseTimeData(chart, s) ==
    [chart EXCEPT !.datasets =
        [index \in 1..Len(chart.datasets) |->
            IF index <= Len(s.datasets) THEN s.datasets[index] ELSE chart.datasets[index]]]

\* createResponseTimeChart() after its fetch resolved with s.
LineCreated(s) ==
    /\ line.state = "none"
    /\ line' = newLine(s)
    /\ snapshot' = s
    /\ UNCHANGED <<programVars, buttons, call, shown, donut, percent, bar,
                   resized, controls, consoleVars>>

\* The response time part of updateAllCharts() after its fetch resolved with s.
LineUpdated(s) ==
    /\ line.state = "live"
    /\ line' = applyResponseTimeData(line, s)
    /\ snapshot' = s
    /\ UNCHANGED <<programVars, buttons, call, shown, donut, percent, bar,
                   resized, controls, consoleVars>>

NextLine ==
    \/ \E s \in ResponseTimeResponses : LineCreated(s)
    \/ \E s \in ResponseTimeResponses : LineUpdated(s)

SpecLine == Init /\ [][NextLine]_vars

----------------------------------------------------------------------------
\* The page with the listeners and timers of the two scripts only: no other
\* code calls the methods of window.metricsManager and window.chartsManager.

NextStartup ==
    \/ DOMContentLoaded
    \/ \E ok \in BOOLEAN : HealthCheckSettles(ok)
    \/ \E c \in MetricCycleIds, ok \in BOOLEAN : MetricsFetchSettles(c, ok)
    \/ MetricsTimerFires
    \/ ChartsInitTimeout
    \/ ChartsTimerFires
    \/ \E t \in ChartTaskIds, ok \in BOOLEAN : ChartFetchSettles(t, ok)
    \/ BeforeUnload

SpecStartup == Init /\ [][NextStartup]_vars

----------------------------------------------------------------------------
\* The FHIR and HL7 console: validateFHIRResource(), parseHL7Message() and
\* transformToFHIR(), the onclick handlers that read a text area, post its
\* text to the backend and write what comes back into a results element.
\* The buttons are not disabled while a request is pending, so invocations of
\* the same and of different handlers overlap.

ConsoleActions == {"validateFHIRResource", "parseHL7Message", "transformToFHIR"}

InputOf(a) == IF a = "validateFHIRResource" THEN "fhirInput" ELSE "hl7Input"
ResultsOf(a) == IF a = "validateFHIRResource" THEN "validationResults" ELSE "hl7Results"

\* A text is a sequence of pieces: " " is a white space character (String.trim
\* strips white space and line terminators alike), "{}" the text of a JSON
\* object, "null" the JSON text null, "x" any other character.
WhiteSpace == {" "}
InputPieces(f) == IF f = "fhirInput" THEN {" ", "{}", "null", "x"} ELSE {" ", "x"}
Texts(f) == Arrays(InputPieces(f))

\* A trim() that strips nothing.
trim_nothing(s) == s

RECURSIVE trimStart(_)
trimStart(s) ==
    IF s # <<>> /\ Head(s) \in WhiteSpace THEN trimStart(Tail(s)) ELSE s

RECURSIVE trimEnd(_)
trimEnd(s) ==
    IF s # <<>> /\ s[Len(s)] \in WhiteSpace THEN trimEnd(SubSeq(s, 1, Len(s) - 1)) ELSE s

\* input.trim(): the text without its leading and trailing white space.
trim(s) == trimEnd(trimStart(s))

IsValue(c) == c \notin WhiteSpace

\* JSON.parse(input): white space around the value is allowed, the text must
\* hold exactly one value.  The result is written "object" or "null"; a text
\* that is not JSON throws a SyntaxError.
JSON_parse(s) ==
    LET v == SelectSeq(s, IsValue)
    IN  IF Len(v) = 1 /\ v[1] = "{}" THEN "object"
        ELSE IF Len(v) = 1 /\ v[1] = "null" THEN "null"
        ELSE "SyntaxError"

\* showLoading(elementId).
LoadingSpinner == "<span class=\"loading-spinner\"></span>"

\* The message of the early return of each handler.
NoInputMessage(a) ==
    CASE a = "validateFHIRResource" -> "No FHIR resource provided"
      [] a = "parseHL7Message" -> "No HL7 message provided"
      [] a = "transformToFHIR" -> "No HL7 message to transform"

\* The messages of the catch block of each handler.
ErrorMessages(a) ==
    CASE a = "validateFHIRResource" -> {"Invalid JSON format", "Validation service error"}
      [] a = "parseHL7Message" -> {"Invalid HL7 message format"}
      [] a = "transformToFHIR" -> {"Transformation failed"}

\* The output a handler builds from a response, by its heading (and for a
\* validation by its verdict).
ResultTexts(a) ==
    CASE a = "validateFHIRResource" -> {"FHIR R4 Validation Results: VALID",
                                        "FHIR R4 Validation Results: INVALID"}
      [] a = "parseHL7Message" -> {"HL7 v2.x Parsing Results"}
      [] a = "transformToFHIR" -> {"HL7 to FHIR Transformation"}

\* The catch block of validateFHIRResource(): the message depends on whether
\* error.message contains 'JSON'.  The text of a SyntaxError is chosen by the
\* JavaScript engine.
validateFHIRResource_catch(mentionsJSON) ==
    IF mentionsJSON THEN "Invalid JSON format" ELSE "Validation service error"

\* A handler up to its first await, or to its end when it does not get there:
\* r.html is what it leaves in its results element, r.request tells whether
\* fetch() was called.  apiClient.validateFHIRResource(resource) reads
\* resource.resourceType before it calls fetchAPI(), which throws a TypeError
\* on null; the handler catches it before any other task runs.
validateFHIRResource_entry(input, mentionsJSON) ==
    IF trim(input) = <<>>
    THEN [html |-> NoInputMessage("validateFHIRResource"), pc |-> "done", request |-> FALSE]
    ELSE CASE JSON_parse(input) = "SyntaxError" ->
                 [html |-> validateFHIRResource_catch(mentionsJSON),
                  pc |-> "done", request |-> FALSE]
           [] JSON_parse(input) = "null" ->
                 [html |-> validateFHIRResource_catch(FALSE),
                  pc |-> "done", request |-> FALSE]
           [] JSON_parse(input) = "object" ->
                 [html |-> LoadingSpinner, pc |-> "pending", request |-> TRUE]

\* parseHL7Message() and transformToFHIR() up to the await.
hl7_entry(a, input) ==
    IF trim(input) = <<>>
    THEN [html |-> NoInputMessage(a), pc |-> "done", request |-> FALSE]
    ELSE [html |-> LoadingSpinner, pc |-> "pending", request |-> TRUE]

\* How an awaited request ends: fetchAPI() throws (the request failed, the
\* status was an error, or the body was not JSON, in which case the message of
\* the error mentions JSON), or it returns the body: null, or an object of
\* which the handlers read is_valid, checks, errors and segments.
ConsoleOutcomes ==
    [rejected : BOOLEAN, mentionsJSON : BOOLEAN, isNull : BOOLEAN,
     is_valid : BOOLEAN, checks : BOOLEAN, errors : BOOLEAN, segments : BOOLEAN]

\* validateFHIRResource() after the await: validation.checks.forEach and
\* validation.errors.forEach throw a TypeError when the array is missing, as
\* does validation.is_valid on null.
validateFHIRResource_resume(o) ==
    IF o.rejected THEN validateFHIRResource_catch(o.mentionsJSON)
    ELSE IF o.isNull THEN validateFHIRResource_catch(FALSE)
    ELSE IF o.is_valid
         THEN IF o.checks THEN "FHIR R4 Validation Results: VALID"
                          ELSE validateFHIRResource_catch(FALSE)
         ELSE IF o.errors THEN "FHIR R4 Validation Results: INVALID"
                          ELSE validateFHIRResource_catch(FALSE)

\* parseHL7Message() after the await: parsed.message_type throws on null,
\* Object.keys(parsed.segments) when segments is missing.
parseHL7Message_resume(o) ==
    IF o.rejected \/ o.isNull \/ ~o.segments
    THEN "Invalid HL7 message format"
    ELSE "HL7 v2.x Parsing Results"

\* transformToFHIR() after the await: JSON.stringify accepts every body.
transformToFHIR_resume(o) ==
    IF o.rejected THEN "Transformation failed" ELSE "HL7 to FHIR Transformation"

\* The user edits a text area.
InputEdited(f, text) ==
    /\ followed = "api-client.js"
    /\ text # fields[f]
    /\ fields' = [fields EXCEPT ![f] = text]
    /\ UNCHANGED <<programVars, buttons, call, shown, donut, snapshot, renderVars,
                   regions, consoleCalls>>

\* A console button is clicked: its handler runs up to the await.
ConsoleClicked(a, mentionsJSON) ==
    /\ followed = "api-client.js"
    /\ Len(consoleCalls) < MaxConsoleCalls
    /\ LET input == fields[InputOf(a)]
           r == IF a = "validateFHIRResource"
                THEN validateFHIRResource_entry(input, mentionsJSON)
                ELSE hl7_entry(a, input)
       IN  /\ regions' = [regions EXCEPT ![ResultsOf(a)] = r.html]
           /\ consoleCalls' = Append(consoleCalls,
                                     [action |-> a, pc |-> r.pc, request |-> r.request])
    /\ UNCHANGED <<programVars, buttons, call, shown, donut, snapshot, renderVars, fields>>

\* The request awaited by invocation i settles: the handler writes its output
\* or the message of its catch block.
ConsoleRequestSettles(i, o) ==
    /\ followed = "api-client.js"
    /\ i \in 1..Len(consoleCalls)
    /\ consoleCalls[i].pc = "pending"
    /\ LET a == consoleCalls[i].action
           html == CASE a = "validateFHIRResource" -> validateFHIRResource_resume(o)
                     [] a = "parseHL7Message" -> parseHL7Message_resume(o)
                     [] a = "transformToFHIR" -> transformToFHIR_resume(o)
       IN  regions' = [regions EXCEPT ![ResultsOf(a)] = html]
    /\ consoleCalls' = [consoleCalls EXCEPT ![i].pc = "done"]
    /\ UNCHANGED <<programVars, buttons, call, shown, donut, snapshot, renderVars, fields>>

InitConsole == Init /\ followed = "api-client.js"

NextConsole ==
    \/ \E f \in InputFields : \E text \in Texts(f) : InputEdited(f, text)
    \/ \E a \in ConsoleActions, mentionsJSON \in BOOLEAN : ConsoleClicked(a, mentionsJSON)
    \/ \E i \in 1..MaxConsoleCalls, o \in ConsoleOutcomes : ConsoleRequestSettles(i, o)

SpecConsole == InitConsole /\ [][NextConsole]_vars

----------------------------------------------------------------------------
\* Properties

InFlight(c) == cycles[c].pc \in MetricQuerySet
Registered(cs, hs, n) == cs[n] # NoHandle /\ hs[cs[n]].state = "live"

\* C1: when a refresh cycle ends after exactly one of its fetches failed, the
\* displays of every other query have been updated by that cycle: for
\* refreshAllMetrics() the widgets of the other three metric groups, for
\* updateAllCharts() every other chart the registry holds.
C1_FailureIsolated ==
    [][ /\ \A c \in MetricCycleIds :
             (InFlight(c) /\ cycles'[c].pc = "done" /\ cycles'[c].failedAt # "none")
                => (MetricQuerySet \ {cycles'[c].failedAt}) \subseteq cycles'[c].applied
        /\ \A t \in ChartTaskIds :
             (/\ tasks[t].kind = "update"
              /\ tasks[t].pc \in FetchedCharts
              /\ tasks'[t].pc = "done"
              /\ tasks'[t].failed # {})
                => \A n \in ChartNames \ tasks'[t].failed :
                      charts'[n] # NoHandle => n \in tasks'[t].applied
      ]_vars

\* C2: once beforeunload has been handled, no refresh timer is active and the
\* chart registry holds no live chart.
C2_TeardownIsFinal ==
    page = "unloaded" =>
        /\ intervalId = null
        /\ updateInterval = null
        /\ \A n \in ChartNames : ~Registered(charts, handles, n)

\* C3 (as claimed): whenever the DOMContentLoaded listener of api-client.js
\* ends, whether its requests succeeded or failed, the refresh timer has been
\* started.
C3_StartupAlwaysStarts ==
    [][ (initPc \in {"health", "refresh"} /\ initPc' \in {"done", "failed"})
            => (intervalId' # null /\ intervalId' \in metricTimers')
      ]_vars

\* C3 (amended): after a successful health check the listener awaits a cycle
\* that is in flight, and when that cycle ends, whether its fetches succeeded
\* or one failed, the listener ends with the refresh timer started; after a
\* failed health check it ends in the error state and starts no timer.
C3_StartupStartsAfterHealthCheck ==
    /\ [](initPc = "refresh" =>
            \E c \in MetricCycleIds : InFlight(c) /\ cycles[c].caller = "init")
    /\ [][ /\ (initPc = "refresh" /\ initPc' # "refresh")
                => (initPc' = "done" /\ intervalId' # null /\ intervalId' \in metricTimers')
           /\ (initPc = "health" /\ initPc' # "health")
                => \/ initPc' = "refresh"
                   \/ /\ initPc' = "failed"
                      /\ intervalId' = intervalId
                      /\ metricTimers' = metricTimers
                      /\ \A w \in errorElements : widgets'[w] = ErrorText
         ]_vars

\* The awaited initial cycle ended on a failed fetch and the timer is running.
C3_Witness ==
    /\ initPc = "done"
    /\ intervalId # null
    /\ \E c \in MetricCycleIds :
          cycles[c].caller = "init" /\ cycles[c].pc = "done" /\ cycles[c].failedAt = "hl7"

\* C4: at most one chart that was created and not destroyed exists per query.
C4_AtMostOneLiveHandle ==
    \A n \in ChartNames : Cardinality(LiveOn(handles, n)) <= 1

\* C5: start() and startAutoUpdate() are idempotent.  Each manager's active
\* timers are exactly the one its intervalId/updateInterval field refers to
\* (none when the field is null), and a start call made while the timer runs
\* changes nothing but the console line it logs.
TimersTracked ==
    /\ metricTimers = (IF intervalId = null THEN {} ELSE {intervalId})
    /\ chartTimers = (IF updateInterval = null THEN {} ELSE {updateInterval})

C5_StartIdempotent ==
    /\ []TimersTracked
    /\ [][ /\ (MetricsStartCalled /\ intervalId # null)
                => /\ metricsLog' = "MetricsRefreshManager already running"
                   /\ UNCHANGED <<detailVars, followed, page, uncaught, initPc, intervalId, metricTimers,
                                  cycles, widgets, alerts, chartsVars>>
           /\ (StartAutoUpdateCalled /\ updateInterval # null)
                => /\ chartsLog' = "Chart auto-update already running"
                   /\ UNCHANGED <<detailVars, followed, page, uncaught, metricsVars, canvases, canvasReuse,
                                  chartsInitTimer, charts, handles, updateInterval,
                                  chartTimers, tasks>>
         ]_vars

\* start() was called while the refresh timer was running.
C5_Witness ==
    /\ metricsLog = "MetricsRefreshManager already running"
    /\ intervalId # null
    /\ metricTimers = {intervalId}

\* C6: stop() and stopAutoUpdate() on a scheduler that is not running (in
\* particular one that was never started) raise no error and change nothing,
\* whether called by page code or by the beforeunload listeners.
C6_StopWhenNotRunning ==
    [][ /\ (MetricsStopCalled /\ intervalId = null) => UNCHANGED vars
        /\ (StopAutoUpdateCalled /\ updateInterval = null) => UNCHANGED vars
        /\ (BeforeUnload /\ intervalId = null)
              => UNCHANGED <<uncaught, metricsVars>>
        /\ (BeforeUnload /\ updateInterval = null)
              => UNCHANGED <<uncaught, updateInterval, chartTimers, chartsLog>>
      ]_vars

\* The beforeunload listener has called stop() on a manager whose start() had
\* never been called.
C6_Witness ==
    /\ page = "unloaded"
    /\ metricsLog = NoLog
    /\ intervalId = null
    /\ metricTimers = {}

\* C7: a step of updateAllCharts() leaves the registry as it is and neither
\* creates nor destroys a chart: the data is written into the registered one.
C7_RefreshInPlace ==
    [][ (\E t \in ChartTaskIds :
            tasks'[t].kind = "update" /\ tasks'[t].pc # tasks[t].pc)
          => /\ charts' = charts
             /\ \A h \in HandleIds : handles'[h].state = handles[h].state
      ]_vars

\* A refresh has written its data into a chart that an earlier task created.
C7_Witness ==
    \E t \in ChartTaskIds :
        /\ tasks[t].kind = "update"
        /\ "responseTime" \in tasks[t].applied
        /\ charts["responseTime"] # NoHandle
        /\ charts["responseTime"][1] # t
        /\ handles[charts["responseTime"]] = [state |-> "live", data |-> t]

\* The alert elements that mirror a value of metric group q.
MirrorsOf(q) == {w \in AlertWidgets : AlertSource(w) = q}

\* C8: the step in which a fetch of a refresh cycle fails writes no widget,
\* shows no alert and touches no chart; the widgets bound to the failed query
\* have never shown data of that cycle.
C8_FailureKeepsDisplay ==
    [][ /\ \A c \in MetricCycleIds :
             (InFlight(c) /\ cycles'[c].failedAt # "none")
                => /\ widgets' = widgets
                   /\ alerts' = alerts
                   /\ cycles'[c].failedAt \notin cycles'[c].applied
                   /\ \A w \in WidgetsOf(cycles'[c].failedAt)
                                   \cup MirrorsOf(cycles'[c].failedAt) :
                         widgets'[w] # Data(c)
        /\ \A t \in ChartTaskIds :
             (tasks'[t].kind = "update" /\ tasks'[t].failed # tasks[t].failed)
                => /\ handles' = handles
                   /\ charts' = charts
                   /\ alerts' = alerts
                   /\ tasks'[t].failed \cap tasks'[t].applied = {}
      ]_vars

\* A timer cycle failed at the HL7 fetch after a full cycle: the HL7 widgets
\* still show the earlier cycle's data, the FHIR widgets the new data.
C8_Witness ==
    \E c, d \in MetricCycleIds :
        /\ c # d
        /\ cycles[c].caller = "timer"
        /\ cycles[c].failedAt = "hl7"
        /\ \A w \in Hl7Widgets \cup {"hl7QueueDepth"} : widgets[w] = Data(d)
        /\ \A w \in FhirWidgets : widgets[w] = Data(c)
        /\ alerts = 0

\* C9: when the fetch of a chart task settles after destroyCharts() ran, no
\* error leaves the task, no destroyed chart is modified, and if the registry
\* holds no chart for that query the result is dropped: no chart is created or
\* registered for it.
C9_LateResultDiscarded ==
    [][ \A t \in ChartTaskIds :
          (tasks[t].pc \in FetchedCharts /\ tasks[t].stale /\ tasks'[t].pc # tasks[t].pc)
            => /\ uncaught' = uncaught
               /\ \A h \in HandleIds :
                     handles[h].state = "destroyed" => handles'[h] = handles[h]
               /\ charts[tasks[t].pc] = NoHandle
                     => /\ charts'[tasks[t].pc] = NoHandle
                        /\ \A h \in HandleIds :
                              h[2] = tasks[t].pc => handles'[h] = handles[h]
      ]_vars

\* C10: the timer callbacks have no mutual exclusion.  While a manager's timer
\* is active the callback can start a cycle whatever cycles are in flight, and
\* starting one leaves the cycles in flight as they are.
C10_NoMutualExclusion ==
    /\ []((followed = "api-client.js" /\ metricTimers # {} /\ FreeCycles # {})
            => ENABLED MetricsTimerFires)
    /\ []((followed = "charts.js" /\ chartTimers # {} /\ FreeTasks # {})
            => ENABLED ChartsTimerFires)
    /\ [][ /\ \A c \in MetricCycleIds :
               (cycles[c].pc = "idle" /\ cycles'[c].pc # "idle")
                  => \A d \in MetricCycleIds \ {c} : cycles'[d] = cycles[d]
           /\ \A t \in ChartTaskIds :
               (tasks[t].pc = "idle" /\ tasks'[t].pc # "idle")
                  => \A u \in ChartTaskIds \ {t} : tasks'[u] = tasks[u]
         ]_vars

\* Two cycles are in flight, and the FHIR widgets, which the later cycle d had
\* written before it wrote the HL7 widgets, show the data of the earlier
\* cycle c again.
C10_Witness ==
    \E c, d \in MetricCycleIds :
        /\ c < d
        /\ InFlight(c) /\ InFlight(d)
        /\ \A w \in Hl7Widgets : widgets[w] = Data(d)
        /\ \A w \in FhirWidgets : widgets[w] = Data(c)

\* C11: a timer callback starts a cycle only while the manager's timer id is
\* set, so none starts between stop() and the next start(); stop() and
\* stopAutoUpdate() leave the suspended cycles as they are, and the awaited
\* fetch of a suspended cycle can settle whatever the timer's state is.
C11_StopPreventsNewCycles ==
    /\ [][ /\ \A c \in MetricCycleIds :
               (cycles[c].pc = "idle" /\ cycles'[c].caller = "timer")
                  => (intervalId # null /\ intervalId \in metricTimers)
           /\ \A t \in ChartTaskIds :
               (tasks[t].pc = "idle" /\ tasks'[t].kind = "update")
                  => (updateInterval # null /\ updateInterval \in chartTimers)
           /\ (MetricsStopCalled \/ BeforeUnload) => cycles' = cycles
           /\ StopAutoUpdateCalled => tasks' = tasks
         ]_vars
    /\ [](\A c \in MetricCycleIds :
            (followed = "api-client.js" /\ InFlight(c))
               => ENABLED MetricsFetchSettles(c, TRUE))
    /\ [](\A t \in ChartTaskIds :
            (followed = "charts.js" /\ tasks[t].pc \in FetchedCharts)
               => ENABLED ChartFetchSettles(t, TRUE))

\* stop() has cancelled the timer while a cycle started by the timer is
\* suspended after its FHIR fetch: the cycle goes on with its HL7 fetch.
C11_Witness ==
    /\ intervalId = null
    /\ metricTimers = {}
    /\ metricsLog = "Stopped automatic metrics refresh"
    /\ \E c \in MetricCycleIds :
          cycles[c].caller = "timer" /\ cycles[c].pc = "hl7" /\ "fhir" \in cycles[c].applied

\* A response that lacks a field its query expects.
Incomplete(r) == r = NullResponse \/ \E f \in DOMAIN r : r[f] = "missing"

\* C12: a response that lacks an expected field is rejected as a whole: the
\* step that handles it writes no element, and no element ever shows text made
\* from a missing value.
C12_IncompleteResponseRejected ==
    /\ [][ /\ \A r \in FhirResponses :
               (FhirResponseApplied(r) /\ Incomplete(r)) => shown' = shown
           /\ \A r \in Hl7Responses :
               (Hl7ResponseApplied(r) /\ Incomplete(r)) => shown' = shown
         ]_vars
    /\ [](\A id \in DOMAIN shown : shown[id] \notin {"undefined", "undefineds"})

\* C13: the message volume chart always has as many labels as data points.
C13_LabelsMatchData ==
    donut.state = "live" => Len(donut.labels) = Len(donut.data)

\* C20: for every arc of the message volume chart, the percentage the tooltip
\* shows is the multiple of 0.1 nearest to value / total * 100, where value and
\* total are taken from the data of the response applied last.
C20_PercentageOfCurrentData ==
    donut.state = "live" =>
        \A i \in 1..Len(snapshot.data) :
            LET v == snapshot.data[i]
                T == reduceSum(snapshot.data)
                p == tooltipPercentage(donut, i)
                n == 10 * p[1] + p[2]
            IN  T > 0 => /\ Len(p) = 2
                         /\ p[2] \in 0..9
                         /\ 2 * (n * T - 1000 * v) <= T
                         /\ 2 * (n * T - 1000 * v) > -T

\* The chart was refreshed with a response other than the one it was built
\* from, and its first arc, 1 of 1 + 2, shows 33.3.
C20_Witness ==
    /\ donut.state = "live"
    /\ snapshot.labels # donut.labels
    /\ donut.data = <<1, 2>>
    /\ tooltipPercentage(donut, 1) = <<33, 3>>
    /\ tooltipPercentage(donut, 2) = <<66, 7>>

\* C14: a call that got a response with a non-success status never returns a
\* value: it ends by throwing, the error it throws carries that status, and
\* the body was never decoded as JSON.
C14_StatusErrorCarriesStatus ==
    (call.pc \in {"returned", "threw"} /\ call.status \in Statuses
        /\ ~responseOk(call.status))
      => /\ call.pc = "threw"
         /\ call.error.status = call.status
         /\ call.read # "json"

\* C15: no error ever leaves refreshAllMetrics() or updateAllCharts(): a cycle
\* in which a fetch fails, or in which applying a response throws, ends
\* normally; the startup handler that awaits the first cycle never gets an
\* error from it; and the failing step leaves the manager's timer as it is.
C15_RefreshNeverRaises ==
    /\ [](~uncaught)
    /\ [][ /\ (initPc = "refresh") => (initPc' # "failed")
           /\ \A c \in MetricCycleIds :
               (InFlight(c) /\ cycles'[c].failedAt # "none")
                  => /\ cycles'[c].pc = "done"
                     /\ cycles[c].caller = "timer"
                           => (intervalId' = intervalId /\ metricTimers' = metricTimers)
           /\ \A t \in ChartTaskIds :
               (/\ tasks'[t].kind = "update"
                /\ \/ tasks'[t].failed # tasks[t].failed
                   \/ tasks'[t].threwAt # tasks[t].threwAt)
                  => /\ tasks'[t].pc = "done"
                     /\ updateInterval' = updateInterval
                     /\ chartTimers' = chartTimers
         ]_vars

\* A chart refresh ended on a failed fetch; nothing escaped and the chart
\* timer is still active.
C15_Witness ==
    /\ ~uncaught
    /\ updateInterval # null
    /\ updateInterval \in chartTimers
    /\ \E t \in ChartTaskIds :
          tasks[t].kind = "update" /\ tasks[t].pc = "done" /\ tasks[t].failed # {}

\* C16: a chart whose canvas is missing is skipped: it never gets a chart and
\* no task ever awaits a fetch for it; and an initialization still ends
\* without an error, having dealt with every chart whose canvas exists (it is
\* created unless its fetch or its construction failed) and with the
\* auto-update timer started.
C16_MissingCanvasSkipped ==
    /\ [](\A n \in ChartNames \ canvases :
            /\ charts[n] = NoHandle
            /\ \A t \in ChartTaskIds :
                  /\ handles[<<t, n>>] = NoChart
                  /\ tasks[t].pc # n
                  /\ n \notin tasks[t].applied \cup tasks[t].failed \cup tasks[t].threwAt)
    /\ [][ \A t \in ChartTaskIds :
             (tasks'[t].kind = "init" /\ tasks[t].pc # "done" /\ tasks'[t].pc = "done")
                => /\ uncaught' = uncaught
                   /\ updateInterval' # null
                   /\ updateInterval' \in chartTimers'
                   /\ canvases \ (tasks'[t].failed \cup tasks'[t].threwAt)
                         = tasks'[t].applied
                   /\ \A n \in tasks'[t].applied : handles'[<<t, n>>].state # "none"
         ]_vars

\* The document has no message volume canvas: the initialization created the
\* three other charts and started the timer.
C16_Witness ==
    /\ "messageVolume" \notin canvases
    /\ charts["messageVolume"] = NoHandle
    /\ updateInterval # null
    /\ \E t \in ChartTaskIds :
          /\ tasks[t].kind = "init"
          /\ tasks[t].pc = "done"
          /\ tasks[t].applied = {"responseTime", "healthStatus", "fhirTrends"}
          /\ \A n \in tasks[t].applied : charts[n] = <<t, n>>

\* A step in which destroyCharts() runs.
DestroyStep == DestroyChartsCalled \/ BeforeUnload

\* C17: destroyCharts() raises nothing whatever charts exist, destroys every
\* chart the registry holds and no other, and empties the registry; as every
\* chart in the registry is one that was not destroyed yet, destroy() is
\* never called on a chart a second time.
C17_DestroyOncePerHandle ==
    /\ [](\A n \in ChartNames :
            charts[n] # NoHandle => handles[charts[n]].state = "live")
    /\ [][ DestroyStep
             => /\ uncaught' = uncaught
                /\ \A n \in ChartNames : charts'[n] = NoHandle
                /\ \A h \in HandleIds :
                      IF \E n \in ChartNames : charts[n] = h
                      THEN handles'[h].state = "destroyed"
                      ELSE handles'[h] = handles[h]
         ]_vars

\* destroyCharts() ran at least twice (the canvas of the second response time
\* chart was free again) in a document whose trends chart was never created.
C17_Witness ==
    /\ canvasReuse = "throws"
    /\ page = "unloaded"
    /\ handles[<<1, "responseTime">>].state = "destroyed"
    /\ handles[<<2, "responseTime">>].state = "destroyed"
    /\ \A t \in ChartTaskIds : handles[<<t, "fhirTrends">>] = NoChart

\* No Chart object was ever constructed.
NoneCreated == \A h \in HandleIds : handles[h] = NoChart

\* C18 (as claimed): destroyCharts() on a manager that never created a chart
\* raises nothing and leaves the registry and the timer as they are.
C18_DestroyWithoutChartsIsNoOp ==
    [][ (DestroyStep /\ NoneCreated)
          => /\ uncaught' = uncaught
             /\ charts' = charts
             /\ updateInterval' = updateInterval
             /\ chartTimers' = chartTimers
      ]_vars

\* C18 (amended): destroyCharts() on a manager that never created a chart
\* raises nothing, constructs and destroys nothing and leaves the registry
\* empty; it stops the auto-update timer if that is running, and changes
\* nothing at all if it is not.
C18_DestroyWithoutChartsOnlyStopsTimer ==
    [][ (DestroyStep /\ NoneCreated)
          => /\ uncaught' = uncaught
             /\ charts' = charts
             /\ handles' = handles
             /\ updateInterval' = null
             /\ chartTimers' = chartTimers \ {updateInterval}
             /\ updateInterval = null
                   => (chartTimers' = chartTimers /\ chartsLog' = chartsLog)
      ]_vars

\* Every fetch of the initialization failed in a document without the trends
\* canvas, so no chart exists; the timer it started was stopped, and the page
\* was unloaded, which ran destroyCharts().
C18_Witness ==
    /\ page = "unloaded"
    /\ NoneCreated
    /\ chartsLog = "Stopped automatic chart updates"
    /\ updateInterval = null
    /\ \E t \in ChartTaskIds :
          tasks[t].kind = "init" /\ tasks[t].pc = "done" /\ tasks[t].failed = FetchedCharts

\* The handler of button b ends in this step.
HandlerEnds(b) == buttons[b].pc = "pending" /\ buttons'[b].pc = "idle"

\* C19: a connection test or a manual Azure refresh that fails shows exactly
\* one alert; alerts are shown by the button handlers only; the step in which
\* a fetch of a background refresh cycle fails shows none.
C19_AlertOnlyForUserActions ==
    [][ /\ \A b \in Buttons :
             (HandlerEnds(b) /\ buttons'[b].outcome = "failed") => alerts' = alerts + 1
        /\ (alerts' # alerts) => \E b \in Buttons : HandlerEnds(b)
        /\ \A c \in MetricCycleIds :
             (InFlight(c) /\ cycles'[c].failedAt # "none") => alerts' = alerts
      ]_vars

\* The manual Azure refresh failed and a background cycle failed: one alert.
C19_Witness ==
    /\ alerts = 1
    /\ buttons["refreshAzureMetrics"] = [pc |-> "idle", outcome |-> "failed"]
    /\ \A b \in Buttons \ {"refreshAzureMetrics"} : buttons[b] = IdleButton
    /\ \E c \in MetricCycleIds : cycles[c].caller = "timer" /\ cycles[c].failedAt = "azure"

C22_YAxisBoundedAt100 ==
    bar.state = "live" => yAxisMax(bar) = 100

\* The chart was refreshed with a response other than the one it was built
\* from, and now holds a value above 100.
C22_Witness ==
    /\ bar.state = "live"
    /\ snapshot.labels # bar.labels
    /\ bar.data = snapshot.data
    /\ bar.data = <<100 + MaxValue, 0>>

\* C23: a step in which resizeCharts() runs changes no chart's data or state,
\* leaves the registry, the timer and every task as they are, and raises no
\* error, whatever the registry holds; resize() is called on the registered
\* charts only.
C23_ResizeIsPresentationOnly ==
    [][ WindowResized
          => /\ handles' = handles
             /\ charts' = charts
             /\ updateInterval' = updateInterval
             /\ chartTimers' = chartTimers
             /\ chartsLog' = chartsLog
             /\ tasks' = tasks
             /\ uncaught' = uncaught
             /\ resized' = {h \in HandleIds : \E n \in ChartNames : charts[n] = h}
      ]_vars

\* The three charts of a document without the trends canvas were resized
\* while the timer was running, and a later refresh wrote new data into them.
C23_Witness ==
    /\ "fhirTrends" \notin canvases
    /\ resized = {<<1, n>> : n \in FetchedCharts}
    /\ updateInterval # null
    /\ ~uncaught
    /\ \A n \in FetchedCharts : handles[<<1, n>>] = [state |-> "live", data |-> 2]

\* C24: the response time chart shows one line per series of the response
\* applied last, each with that series' data, and its labels are that
\* response's labels.
C24_LineShowsAppliedSnapshot ==
    line.state = "live" =>
        /\ line.labels = snapshot.labels
        /\ Len(line.datasets) = Len(snapshot.datasets)
        /\ \A index \in 1..Len(snapshot.datasets) :
              line.datasets[index] = snapshot.datasets[index]

\* The step in which the last fetch of cycle c succeeds.
EndsComplete(c) ==
    InFlight(c) /\ cycles'[c].pc = "done" /\ cycles'[c].failedAt = "none"

\* The step in which an updateAllCharts() task ends without a failure.
UpdateEndsComplete(t) ==
    /\ tasks'[t].kind = "update"
    /\ tasks[t].pc # "done"
    /\ tasks'[t].pc = "done"
    /\ tasks'[t].failed = {}
    /\ tasks'[t].threwAt = {}

InitialRefreshDone ==
    \E c \in MetricCycleIds : cycles[c].caller = "init" /\ cycles[c].pc = "done"

\* An initializeCharts() has completed: every chart was created, or skipped
\* for its missing canvas, or failed.
InitialRenderDone ==
    \E t \in ChartTaskIds :
        /\ tasks[t].kind = "init"
        /\ tasks[t].pc = "done"
        /\ \A n \in ChartNames :
              n \in tasks[t].applied \cup tasks[t].failed \cup tasks[t].threwAt
                    \cup (ChartNames \ canvases)

\* C26: in a page that runs only the scripts' own listeners, the refresh
\* timer is started by the step that ends the initial refreshAllMetrics(),
\* the chart timer by the step that ends initializeCharts() after its four
\* creation steps, and a cycle is started by a timer only after that.
C26_TimersStartAfterInitialRender ==
    /\ [](metricTimers # {} => (initPc = "done" /\ InitialRefreshDone))
    /\ [](chartTimers # {} => InitialRenderDone)
    /\ [](\A c \in MetricCycleIds :
            cycles[c].caller = "timer" => (initPc = "done" /\ InitialRefreshDone))
    /\ [](\A t \in ChartTaskIds : tasks[t].kind = "update" => InitialRenderDone)
    /\ [][ /\ (intervalId = null /\ intervalId' # null)
                => (initPc = "refresh" /\ initPc' = "done")
           /\ (updateInterval = null /\ updateInterval' # null)
                => \E t \in ChartTaskIds :
                      /\ tasks[t].kind = "init"
                      /\ tasks[t].pc # "done"
                      /\ tasks'[t].pc = "done"
         ]_vars

\* The initialization ended with the message volume fetch failed and the
\* other three charts created; the timer it started has fired and the refresh
\* awaits its first fetch.
C26_Witness ==
    /\ updateInterval # null
    /\ tasks[1].kind = "init"
    /\ tasks[1].pc = "done"
    /\ tasks[1].failed = {"messageVolume"}
    /\ tasks[1].applied = ChartNames \ {"messageVolume"}
    /\ tasks[2].kind = "update"
    /\ tasks[2].pc = "responseTime"

\* C27: in a page that runs only the scripts' own listeners, the error text
\* is written in the step in which the initial health check fails and in no
\* other step, to the twelve metric elements and to no other element; from
\* then on no cycle is ever started (no metric fetch is issued) and no timer
\* is started.  A metric fetch that fails during the initial
\* refreshAllMetrics() writes nothing, and the startup goes on normally.
C27_ErrorStateOnlyForHealthCheck ==
    /\ [](Cardinality(errorElements) = 12)
    /\ [](initPc = "failed"
            => /\ \A w \in errorElements : widgets[w] = ErrorText
               /\ \A w \in AlertWidgets : widgets[w] = Initial
               /\ \A c \in MetricCycleIds : cycles[c] = IdleCycle
               /\ intervalId = null
               /\ metricTimers = {})
    /\ []((\E w \in WidgetIds : widgets[w] = ErrorText) => initPc = "failed")
    /\ [][ /\ (initPc' = "failed" /\ initPc # "failed")
                => (initPc = "health" /\ cycles' = cycles)
           /\ \A c \in MetricCycleIds :
                (InFlight(c) /\ cycles[c].caller = "init" /\ cycles'[c].failedAt # "none")
                   => /\ initPc' = "done"
                      /\ widgets' = widgets
         ]_vars

\* The health check failed: the twelve elements show the error, nothing else
\* happened.
C27_Witness ==
    /\ initPc = "failed"
    /\ page = "ready"
    /\ \A w \in errorElements : widgets[w] = ErrorText
    /\ \A c \in MetricCycleIds : cycles[c] = IdleCycle
    /\ metricTimers = {}

\* Where a chart task stands in the order of the charts.
Position(pc) ==
    CASE pc = "idle" -> 0
      [] pc = "done" -> Len(ChartOrder) + 1
      [] OTHER -> ChartIndex(pc)

\* C28: a step of updateAllCharts() never creates a chart and never waits for
\* a fetch for a chart the registry does not hold: such a chart stays absent
\* and no Chart object is constructed for it.  The refresh skips absent
\* charts only: every chart it passes that the registry holds is updated,
\* unless the refresh ends in a failure.
C28_AbsentChartStaysAbsent ==
    [][ \A t \in ChartTaskIds :
          (tasks'[t].kind = "update" /\ tasks'[t].pc # tasks[t].pc)
            => /\ \A n \in ChartNames :
                     charts[n] = NoHandle
                        => /\ charts'[n] = NoHandle
                           /\ tasks'[t].pc # n
                           /\ \A h \in HandleIds : h[2] = n => handles'[h] = handles[h]
               /\ (tasks'[t].failed = tasks[t].failed /\ tasks'[t].threwAt = tasks[t].threwAt)
                     => \A n \in ChartNames :
                           (/\ charts[n] # NoHandle
                            /\ Position(tasks[t].pc) <= ChartIndex(n)
                            /\ ChartIndex(n) < Position(tasks'[t].pc))
                              => /\ n \in tasks'[t].applied
                                 /\ handles'[charts[n]].data = t
      ]_vars

\* The message volume fetch of the initialization failed; the refresh that
\* followed updated the three charts that exist, and no message volume chart
\* was ever constructed.
C28_Witness ==
    /\ tasks[1].kind = "init"
    /\ tasks[1].failed = {"messageVolume"}
    /\ tasks[2].kind = "update"
    /\ tasks[2].pc = "done"
    /\ tasks[2].applied = ChartNames \ {"messageVolume"}
    /\ charts["messageVolume"] = NoHandle
    /\ \A t \in ChartTaskIds : handles[<<t, "messageVolume">>] = NoChart
    /\ \A n \in ChartNames \ {"messageVolume"} :
          handles[<<1, n>>] = [state |-> "live", data |-> 2]

\* C29: whenever no refresh cycle is in flight (and the Epic element does not
\* show the startup error), the alert element epicAlertTime shows the same
\* Epic response as the element epicResponseTime.
C29_MirrorAgreesWithPrimary ==
    ((\A c \in MetricCycleIds : ~InFlight(c)) /\ widgets["epicResponseTime"] # ErrorText)
        => widgets["epicAlertTime"] = widgets["epicResponseTime"]

\* C30: the button of each of the four actions is disabled, and shows the
\* spinner, exactly while its handler awaits; a click disables the button and
\* keeps its text; and when the handler ends, with or without a failure, the
\* button is enabled and shows the text it had before the click.
C30_ButtonDisabledWhilePending ==
    /\ [](\A b \in Buttons :
            /\ controls[b].disabled <=> buttons[b].pc = "pending"
            /\ buttons[b].pc = "idle" => controls[b].innerHTML # Spinner)
    /\ [][ \A b \in Buttons :
             /\ (buttons[b].pc = "idle" /\ buttons'[b].pc = "pending")
                   => /\ controls'[b].disabled
                      /\ controls'[b].innerHTML = Spinner
                      /\ controls'[b].originalText = controls[b].innerHTML
             /\ HandlerEnds(b)
                   => /\ ~controls'[b].disabled
                      /\ controls'[b].innerHTML = controls[b].originalText
                      /\ controls'[b].innerHTML = ButtonMarkup(b).innerHTML
             /\ (buttons'[b].pc = buttons[b].pc) => controls'[b] = controls[b]
         ]_vars

\* The Epic test failed and its button is enabled again with its text, while
\* the audit report is being generated with its button disabled.
C30_Witness ==
    /\ buttons["testEpicConnection"] = [pc |-> "idle", outcome |-> "failed"]
    /\ controls["testEpicConnection"] = ButtonMarkup("testEpicConnection")
    /\ alerts = 1
    /\ buttons["generateAuditReport"].pc = "pending"
    /\ controls["generateAuditReport"] =
          [innerHTML |-> Spinner, disabled |-> TRUE, originalText |-> "generateAuditReport"]

\* C31: for the console actions validateFHIRResource, parseHL7Message and
\* transformToFHIR: when the handler runs on an input that is empty or only
\* white space, it sends no request and leaves the 'no input provided' message
\* of the action in its results element; and whenever an invocation on another
\* input finishes (at once, or when its request settles), its results element
\* shows a result or an error message of the action, not the loading spinner.
OnlyWhiteSpace(s) == \A k \in 1..Len(s) : s[k] \in WhiteSpace
Finished(a, r) ==
    /\ r[ResultsOf(a)] \in ResultTexts(a) \cup ErrorMessages(a)
    /\ r[ResultsOf(a)] # LoadingSpinner
C31_ConsoleNeverLeftLoading ==
    [][ /\ Len(consoleCalls') = Len(consoleCalls) + 1 =>
              LET new == consoleCalls'[Len(consoleCalls')]
                  a == new.action
              IN  IF OnlyWhiteSpace(fields[InputOf(a)])
                  THEN /\ ~new.request
                       /\ new.pc = "done"
                       /\ regions'[ResultsOf(a)] = NoInputMessage(a)
                  ELSE new.pc = "done" => Finished(a, regions')
        /\ \A i \in 1..Len(consoleCalls) :
              (consoleCalls[i].pc = "pending" /\ consoleCalls'[i].pc = "done")
                 => Finished(consoleCalls[i].action, regions')
      ]_vars
C31_Witness ==
    /\ consoleCalls = << [action |-> "parseHL7Message", pc |-> "done", request |-> TRUE],
                         [action |-> "transformToFHIR", pc |-> "done", request |-> FALSE] >>
    /\ fields["hl7Input"] = <<" ", " ">>
    /\ regions["hl7Results"] = NoInputMessage("transformToFHIR")
    /\ regions["validationResults"] = Initial

====
